---- MODULE Spec2Model ----
(***************************************************************************)
(* LGO Deterministic Predictor (src/lgojumpfinal.cpp): the decimal-string  *)
(* arithmetic, the gap predictor, the sequence file and the console driver.*)
(*                                                                         *)
(* A std::string is a sequence of character codes taken relative to '0'    *)
(* (the code computes c - '0' everywhere): '0'..'9' are 0..9, 'z' is 74    *)
(* and '-' is -3.  The sequence file is kept as its complete lines (each   *)
(* ended by "\n" on disk) and the unterminated text after the last "\n".   *)
(***************************************************************************)
EXTENDS Integers, Sequences, FiniteSets, TLC

VARIABLES
    pc,                     \* where main() is: "menu", "loop", "terminated", "aborted"
    is_running,             \* global, line 69
    in_menu,                \* global, line 70
    user_prime_input,       \* global, line 74
    predictions_made,       \* global, line 68
    current_prime_set_enum, \* global, line 75
    metrics,                \* the PredictionMetrics of the last prediction
    file,                   \* SEQUENCE_FILE on disk
    console,                \* the last message written to std::cout
    appends_failed,         \* appends whose open failed (observer of the run)
    total_calls,            \* predictions since the program started (observer)
    last_saved,             \* the last string an append wrote (observer)
    prior_file,             \* SEQUENCE_FILE as the program found it (observer)
    loop_entry_file,        \* SEQUENCE_FILE when prediction_loop was last entered (observer)
    loop_opens,             \* for each append of that prediction_loop, whether
                            \* its open succeeded (observer)
    pn_str,                 \* argument of a direct call of a core function
    ret                     \* what that call returned

vars == <<pc, is_running, in_menu, user_prime_input, predictions_made,
          current_prime_set_enum, metrics, file, console, appends_failed,
          total_calls, last_saved, prior_file, loop_entry_file, loop_opens,
          pn_str, ret>>

-----------------------------------------------------------------------------
(* Bounds of the model *)

MaxLen == 3          \* direct calls: every digit string of 1..MaxLen digits
MaxAddend == 12      \* direct calls: every addend 0..MaxAddend, and the LargeAddends
MaxUndef == 3        \* an undefined float-to-integer cast yields -MaxUndef..MaxUndef too
MaxDigits == 40      \* direct calls: a digit string of every length 1..MaxDigits
MaxCalls == 2        \* driver: predictions per program run
MaxSaves == 3        \* direct calls of save_new_prime in a row
ChainIters == 1000   \* chain: predictions per selected start value

-----------------------------------------------------------------------------
(* Characters and strings *)

Digit == 0..9
CHAR_z == 74
CHAR_MINUS == -3

\* s.find_first_not_of("0123456789") == npos, and s not empty
IsDigitString(s) == Len(s) >= 1 /\ \A i \in 1..Len(s) : s[i] \in Digit

\* C++ integer division and remainder truncate toward zero (divisor > 0 here)
CDiv(a, b) == IF a >= 0 THEN a \div b ELSE -((-a) \div b)
CRem(a, b) == a - b * CDiv(a, b)

\* std::round of the rational num/den (den > 0): halves go away from zero
Round(num, den) ==
    IF num >= 0 THEN (2 * num + den) \div (2 * den)
    ELSE -((2 * (-num) + den) \div (2 * den))

RECURSIVE to_string(_)
to_string(n) ==
    IF n < 0 THEN <<CHAR_MINUS>> \o to_string(-n)
    ELSE IF n < 10 THEN <<n>>
    ELSE Append(to_string(n \div 10), n % 10)

RepeatChar(c, n) == [i \in 1..n |-> c]

-----------------------------------------------------------------------------
(* BIGINT arithmetic and modulo, lines 135-199 *)

\* The loops below run in blocks of 16 iterations, so that a loop over a long
\* string stays within the evaluator's stack.

\* add_strings, lines 144-159: the body of the while loop. i and j are the
\* 1-based positions of the code's i and j.
add_body(large_num_str, small_num_str, st) ==
    LET sum == st.carry
               + (IF st.i >= 1 THEN large_num_str[st.i] ELSE 0)
               + (IF st.j >= 1 THEN small_num_str[st.j] ELSE 0)
    IN [i |-> IF st.i >= 1 THEN st.i - 1 ELSE st.i,
        j |-> IF st.j >= 1 THEN st.j - 1 ELSE st.j,
        carry |-> CDiv(sum, 10),
        result |-> <<CRem(sum, 10)>> \o st.result]

\* while (i >= 0 || j >= 0 || carry), line 143, for at most n iterations
RECURSIVE add_steps(_, _, _, _)
add_steps(large_num_str, small_num_str, st, n) ==
    IF ~(st.i >= 1 \/ st.j >= 1 \/ st.carry # 0) \/ n = 0 THEN st
    ELSE add_steps(large_num_str, small_num_str,
                   add_body(large_num_str, small_num_str, st), n - 1)

RECURSIVE add_blocks(_, _, _)
add_blocks(large_num_str, small_num_str, blocks) ==
    IF blocks = 0
    THEN [i |-> Len(large_num_str), j |-> Len(small_num_str),
          carry |-> 0, result |-> <<>>]
    ELSE add_steps(large_num_str, small_num_str,
                   add_blocks(large_num_str, small_num_str, blocks - 1), 16)

\* the loop condition without "|| carry": the carry out of the top digit is lost
add_strings_drop_carry(large_num_str, small_num_ll) ==
    LET small_num_str == to_string(small_num_ll)
        longer == IF Len(large_num_str) > Len(small_num_str)
                  THEN Len(large_num_str) ELSE Len(small_num_str)
        result == add_blocks(large_num_str, small_num_str, (longer \div 16) + 1).result
    IN SubSeq(result, Len(result) - longer + 1, Len(result))

\* the loop makes at most max(len, len) + 1 iterations
add_strings(large_num_str, small_num_ll) ==
    LET small_num_str == to_string(small_num_ll)
    IN add_blocks(large_num_str, small_num_str,
                  ((Len(large_num_str) + Len(small_num_str) + 1) \div 16) + 1).result

\* the body of the range-for of calculate_mod_12 and calculate_mod_7, line 168
mod_body(s, m, st) ==
    [i |-> st.i + 1, remainder |-> CRem(st.remainder * 10 + s[st.i], m)]

\* for (char c : pn_str), line 167, for at most n iterations
RECURSIVE mod_steps(_, _, _, _)
mod_steps(s, m, st, n) ==
    IF st.i > Len(s) \/ n = 0 THEN st
    ELSE mod_steps(s, m, mod_body(s, m, st), n - 1)

RECURSIVE mod_blocks(_, _, _)
mod_blocks(s, m, blocks) ==
    IF blocks = 0 THEN [i |-> 1, remainder |-> 0]
    ELSE mod_steps(s, m, mod_blocks(s, m, blocks - 1), 16)

mod_loop(s, m) == mod_blocks(s, m, (Len(s) \div 16) + 1).remainder

\* the body of calculate_mod_7 pasted without changing the modulus
calculate_mod_12_pasted(s) == mod_loop(s, 7)

calculate_mod_12(s) == mod_loop(s, 12)

calculate_mod_7(s) == mod_loop(s, 7)

SET_NONE == 0
SET_A == 1
SET_B == 2
SET_C == 3
SET_D == 4

determine_prime_set_swapped(s) ==
    IF s = <<>> THEN SET_NONE
    ELSE LET p_mod_12 == calculate_mod_12(s)
         IN IF p_mod_12 = 1 THEN SET_A
            ELSE IF p_mod_12 = 5 THEN SET_C
            ELSE IF p_mod_12 = 7 THEN SET_B
            ELSE IF p_mod_12 = 11 THEN SET_D
            ELSE IF s = <<2>> THEN SET_A
            ELSE IF s = <<3>> THEN SET_B
            ELSE SET_NONE

determine_prime_set(s) ==
    IF s = <<>> THEN SET_NONE
    ELSE LET p_mod_12 == calculate_mod_12(s)
         IN IF p_mod_12 = 1 THEN SET_A
            ELSE IF p_mod_12 = 5 THEN SET_B
            ELSE IF p_mod_12 = 7 THEN SET_C
            ELSE IF p_mod_12 = 11 THEN SET_D
            ELSE IF s = <<2>> THEN SET_A
            ELSE IF s = <<3>> THEN SET_B
            ELSE SET_NONE

-----------------------------------------------------------------------------
(* Constants, lines 32-63 *)

ulam_delta_correction_12 == <<0, -2, 2, -1, -6>>      \* indexed by PrimeSet + 1
ulam_delta_correction_7 == <<0, 3, -1, 0, 1, -1, 0>>  \* indexed by (p mod 7) + 1

PRIME_LIST == <<
    <<9,9,9,9,9,9,9,9,6,7>>,
    <<9,9,9,9,9,9,9,9,9,9,9,9,9,9,1>>,
    <<9,9,9,9,9,9,9,9,9,9,9,9,9,9,9,9,9,8,3>>,
    <<9,9,9,9,9,9,9,9,9,9,9,9,9,9,9,9,9,9,7>> >>

\* MATH_PI / 10 as a ratio of integers (|delta_7| <= 3, so six places decide the round)
PI_NUM == 3141593
PI_DEN == 10000000

\* C_LGO_STAR = 415.84014482563464, k = ln(C_LGO_STAR) / C_LGO_STAR = 0.01450148811797421.
\* round(k * ln x) >= n  iff  x >= exp((n - 1/2) / k).  Entry n holds the number of
\* integer digits of exp((n - 1/2) / k) and its nine leading digits.
PHI_ROUND_DIGITS == <<15, 45, 75, 105, 135, 165, 195, 225, 255, 285, 315, 345, 375>>
PHI_ROUND_LEAD == <<942182453, 836382689, 742463416, 659090547, 585079803,
                    519379890, 461057567, 409284387, 363324932, 322526367,
                    286309164, 254158871, 225618806>>

\* The largest finite value of the type std::stold returns is 1.7976931348623157e308
\* where long double is the 64-bit double (the Windows toolchain this program
\* targets): LDBL_MAX_10_EXP and the nine leading digits of LDBL_MAX.
LDBL_MAX_10_EXP == 308
LDBL_MAX_LEAD == 179769313

-----------------------------------------------------------------------------
(* std::stold on the strings of this model, lines 233 and 273 *)

\* the length of the longest prefix of s made of digits
DigitPrefixLen(s) ==
    LET stops == {i \in 1..Len(s) : s[i] \notin Digit}
    IN IF stops = {} THEN Len(s)
       ELSE (CHOOSE i \in stops : \A j \in stops : i <= j) - 1

\* a digit string without its leading zeros: the significant digits of its value
StripZeros(s) ==
    LET nonzero == {i \in 1..Len(s) : s[i] # 0}
    IN IF nonzero = {} THEN <<>>
       ELSE SubSeq(s, CHOOSE i \in nonzero : \A j \in nonzero : i <= j, Len(s))

RECURSIVE Pow10(_)
Pow10(n) == IF n = 0 THEN 1 ELSE 10 * Pow10(n - 1)

RECURSIVE SmallValue(_)
SmallValue(s) ==
    IF s = <<>> THEN 0 ELSE 10 * SmallValue(SubSeq(s, 1, Len(s) - 1)) + s[Len(s)]

\* the nine leading digits of a number given by its significant digits
Lead9(sig) ==
    LET m == IF Len(sig) < 9 THEN Len(sig) ELSE 9
    IN SmallValue(SubSeq(sig, 1, m)) * Pow10(9 - m)

\* std::stoll in place of std::stold: the range is that of long long, 9223372036854775807
stold_as_stoll(s) ==
    LET n == DigitPrefixLen(s)
        sig == StripZeros(SubSeq(s, 1, n))
    IN IF n = 0 THEN [status |-> "invalid", sig |-> <<>>]
       ELSE IF Len(sig) > 19 \/ (Len(sig) = 19 /\ Lead9(sig) > 922337203)
            THEN [status |-> "range", sig |-> sig]
       ELSE [status |-> "ok", sig |-> sig]

\* stold parses the longest prefix of digits: "invalid" when there is none
\* (std::invalid_argument), "range" when the value exceeds the type
\* (std::out_of_range), else "ok" with the significant digits of the value.
stold(s) ==
    LET n == DigitPrefixLen(s)
        sig == StripZeros(SubSeq(s, 1, n))
    IN IF n = 0 THEN [status |-> "invalid", sig |-> <<>>]
       ELSE IF Len(sig) > LDBL_MAX_10_EXP + 1
               \/ (Len(sig) = LDBL_MAX_10_EXP + 1 /\ Lead9(sig) > LDBL_MAX_LEAD)
            THEN [status |-> "range", sig |-> sig]
       ELSE [status |-> "ok", sig |-> sig]

-----------------------------------------------------------------------------
(* Core arithmetic, lines 205-288 *)

base_gap_no_even(s) ==
    LET digits == Len(s)
        base_gap == Round(digits * digits, 50) + 2
        predicted_gap == base_gap + (2 \div 2)
    IN IF predicted_gap < 2 THEN 2 ELSE predicted_gap

\* LGO_CalculateNextPrime_BaseGap_Detailed: the predicted_gap it returns
LGO_CalculateNextPrime_BaseGap_Detailed(s) ==
    LET digits == Len(s)
        base_gap == Round(digits * digits, 50) + 2
        predicted_gap == base_gap + (2 \div 2)
        even == IF CRem(predicted_gap, 2) # 0 THEN predicted_gap + 1 ELSE predicted_gap
    IN IF even < 2 THEN 2 ELSE even

\* round(phi_term), phi_term = ln_pn * ln(C_LGO_STAR) / C_LGO_STAR and
\* ln_pn = ln(10) * (digits - 1) + ln(lead), for lead >= 1 given by its
\* significant digits: the number of n with lead * 10^(digits-1) >= exp((n-1/2)/k).
G_density_of(digits, sig) ==
    LET total == Len(sig) + digits - 1
    IN Cardinality({n \in 1..Len(PHI_ROUND_DIGITS) :
           \/ total > PHI_ROUND_DIGITS[n]
           \/ total = PHI_ROUND_DIGITS[n] /\ Lead9(sig) >= PHI_ROUND_LEAD[n]})

\* (long long)std::round(-inf): the conversion is undefined. The builds at hand
\* give the most negative long long; any other long long is allowed.
LLONG_MIN_CAST == -1073741824
UndefinedCast == {LLONG_MIN_CAST} \cup (-MaxUndef..MaxUndef)

\* step 4 without "if (final_gap < 2) final_gap = 2"
final_gap_no_clamp(sum) ==
    IF CRem(sum, 2) # 0 THEN sum + 1 ELSE sum

\* step 4, lines 264-267
final_gap_no_even(sum) ==
    IF sum < 2 THEN 2 ELSE sum

final_gap_of(sum) ==
    LET even == IF CRem(sum, 2) # 0 THEN sum + 1 ELSE sum
    IN IF even < 2 THEN 2 ELSE even

PrimeSetName(e) ==
    CASE e = SET_A -> "SET_A" [] e = SET_B -> "SET_B" [] e = SET_C -> "SET_C"
      [] e = SET_D -> "SET_D" [] OTHER -> "SET_UNKNOWN"

NoMetrics ==
    [current_prime_digits |-> 0, base_gap_out |-> 0, density_correction_G |-> 0,
     delta_out |-> 0, fluctuation_delta |-> 0, final_gap |-> 0,
     current_prime_set |-> "SET_D", pnt_ratio_positive |-> FALSE]

\* The outcomes of LGO_Predict_Deterministic(pn_str, metrics): an exception that
\* escapes it, or the pair it returns with the metrics and the global
\* current_prime_set_enum it leaves behind.
LGO_Predict_Deterministic(s) ==
    LET digits == Len(s)
        base_gap_heuristic == LGO_CalculateNextPrime_BaseGap_Detailed(s)
        lead == stold(SubSeq(s, 1, IF 10 < Len(s) THEN 10 ELSE Len(s)))
        set_enum == determine_prime_set(s)
        delta_12 == ulam_delta_correction_12[set_enum + 1]
        p_n_mod_7 == calculate_mod_7(s)
        delta_7 == ulam_delta_correction_7[p_n_mod_7 + 1]
        delta_final == delta_12 + Round(delta_7 * PI_NUM, PI_DEN)
        full == stold(s)
        Gs == IF lead.sig = <<>> THEN UndefinedCast
              ELSE {G_density_of(digits, lead.sig)}
    IN IF lead.status # "ok"
       THEN {[threw |-> "invalid_argument", final_gap |-> 0, next |-> <<>>,
              metrics |-> NoMetrics, set_enum |-> SET_D]}
       ELSE IF full.status # "ok"
       THEN {[threw |-> "out_of_range", final_gap |-> 0, next |-> <<>>,
              metrics |-> NoMetrics, set_enum |-> set_enum]}
       ELSE {[threw |-> "no",
              final_gap |-> final_gap_of(base_gap_heuristic + delta_final + G),
              next |-> add_strings(s, final_gap_of(base_gap_heuristic + delta_final + G)),
              set_enum |-> set_enum,
              metrics |->
                [current_prime_digits |-> digits,
                 base_gap_out |-> base_gap_heuristic,
                 density_correction_G |-> G,
                 delta_out |-> delta_final,
                 fluctuation_delta |-> 0,
                 final_gap |-> final_gap_of(base_gap_heuristic + delta_final + G),
                 current_prime_set |-> PrimeSetName(set_enum),
                 pnt_ratio_positive |-> (full.sig \notin {<<>>, <<1>>})]]
             : G \in Gs}

-----------------------------------------------------------------------------
(* File I/O, lines 104-128 *)

NoFile == [exists |-> FALSE, lines |-> <<>>, tail |-> <<>>]

\* what successive std::getline calls return: every terminated line, then the
\* unterminated text after the last "\n" when there is any
GetLines(f) ==
    IF ~f.exists THEN <<>>
    ELSE IF f.tail = <<>> THEN f.lines
    ELSE Append(f.lines, f.tail)

RECURSIVE load_loop(_, _, _)
load_loop(ls, i, last_line) ==
    IF i > Len(ls) THEN last_line
    ELSE load_loop(ls, i + 1, IF ls[i] # <<>> THEN ls[i] ELSE last_line)

load_last_prime_first(f) ==
    LET ls == SelectSeq(GetLines(f), LAMBDA l : l # <<>>)
    IN IF ls = <<>> THEN <<>> ELSE ls[1]

load_last_prime(f) == load_loop(GetLines(f), 1, <<>>)

\* file << prime_candidate without the "\n": the value is left unterminated
save_new_prime_no_newline(f, prime_candidate, opened) ==
    IF opened
    THEN [exists |-> TRUE, lines |-> f.lines, tail |-> f.tail \o prime_candidate]
    ELSE f

\* opened: whether std::ofstream(SEQUENCE_FILE, std::ios::app) opened the file
save_new_prime(f, prime_candidate, opened) ==
    IF opened
    THEN [exists |-> TRUE,
          lines |-> Append(f.lines, f.tail \o prime_candidate),
          tail |-> <<>>]
    ELSE f

-----------------------------------------------------------------------------
(* Inputs *)

RECURSIVE StringsOver(_, _)
StringsOver(alphabet, n) ==
    IF n = 0 THEN {<<>>}
    ELSE LET shorter == StringsOver(alphabet, n - 1)
         IN shorter \cup {Append(s, c) : s \in {x \in shorter : Len(x) = n - 1},
                                         c \in alphabet}

DigitStrings == StringsOver(Digit, MaxLen) \ {<<>>}

\* digit strings where the density correction, its rounding thresholds, the
\* undefined cast and the range of stold come into play
LongInputs ==
    {PRIME_LIST[i] : i \in 1..Len(PRIME_LIST)}
    \cup {<<9,4,2,1,8,2,4,5>>, <<9,4,2,1,8,2,4,6>>,
          <<0,0,0,0,0,0,0,0,0,0,1,1>>, <<0,0,0,0,0,0,0,0,0,0,7,1>>,
          RepeatChar(9, 36), RepeatChar(1, 36),
          <<1>> \o RepeatChar(0, LDBL_MAX_10_EXP),
          RepeatChar(9, LDBL_MAX_10_EXP),
          RepeatChar(9, LDBL_MAX_10_EXP + 1),
          RepeatChar(9, LDBL_MAX_10_EXP + 2)}

\* one digit string of every length up to MaxDigits
EveryLength == {RepeatChar(7, d) : d \in 1..MaxDigits}

DirectInputs == DigitStrings \cup LongInputs \cup EveryLength

LargeAddends == {99, 100, 999, 1000, 99999, 1000000000}

Addends == (0..MaxAddend) \cup LargeAddends

\* what the operator may type at "Enter your prime"
ManualInputs ==
    {<<>>, <<7,1>>, <<1,CHAR_z>>, RepeatChar(9, LDBL_MAX_10_EXP + 2)}

\* what SEQUENCE_FILE may hold when the program starts
InitialFiles ==
    {NoFile,
     [exists |-> TRUE, lines |-> <<<<>>, <<>>>>, tail |-> <<>>],
     [exists |-> TRUE, lines |-> <<<<1,1>>, <<>>>>, tail |-> <<>>],
     [exists |-> TRUE, lines |-> <<<<5>>>>, tail |-> <<2,3>>],
     [exists |-> TRUE, lines |-> <<<<5>>, <<1,CHAR_z>>>>, tail |-> <<>>],
     [exists |-> TRUE, lines |-> <<<<CHAR_z,1>>>>, tail |-> <<>>]}

NoCall == [op |-> "none"]

-----------------------------------------------------------------------------
(* The console driver, lines 295-370 and 517-576 *)

InitGlobals ==
    /\ is_running = TRUE
    /\ in_menu = TRUE
    /\ user_prime_input = <<>>
    /\ predictions_made = 0
    /\ current_prime_set_enum = SET_D
    /\ metrics = NoMetrics
    /\ console = "Your Choice: "
    /\ appends_failed = 0
    /\ total_calls = 0
    /\ last_saved = <<>>
    /\ loop_opens = <<>>

Init ==
    /\ InitGlobals
    /\ pc = "menu"
    /\ file \in InitialFiles
    /\ prior_file = file
    /\ loop_entry_file = file
    /\ pn_str = <<>>
    /\ ret = NoCall

Observers == <<appends_failed, total_calls, last_saved, prior_file, pn_str, ret>>

LoopObservers == <<loop_entry_file, loop_opens>>

\* main(), lines 561-567, after display_menu() has returned with a start value:
\* prediction_loop() is entered, and returns at once when there is nothing to do
EnterLoop ==
    IF is_running' /\ user_prime_input' # <<>>
    THEN /\ pc' = "loop"
         /\ loop_entry_file' = file
         /\ loop_opens' = <<>>
    ELSE /\ pc' = "menu"
         /\ UNCHANGED LoopObservers

\* choice == 'Q', lines 329-332
MenuQuit ==
    /\ pc = "menu"
    /\ is_running' = FALSE
    /\ in_menu' = FALSE
    /\ pc' = "terminated"
    /\ console' = "Program Terminated"
    /\ UNCHANGED <<user_prime_input, predictions_made, current_prime_set_enum,
                   metrics, file, Observers, LoopObservers>>

\* choice == 'L', lines 333-342
MenuLoad ==
    /\ pc = "menu"
    /\ LET loaded_prime == load_last_prime(file)
       IN IF loaded_prime # <<>>
          THEN /\ user_prime_input' = loaded_prime
               /\ predictions_made' = 0
               /\ in_menu' = FALSE
               /\ console' = "PRESS 'S' TO STOP"
               /\ UNCHANGED is_running
               /\ EnterLoop
          ELSE /\ console' = "Could not load sequence"
               /\ UNCHANGED <<user_prime_input, predictions_made, in_menu,
                              is_running, pc, LoopObservers>>
    /\ UNCHANGED <<current_prime_set_enum, metrics, file, Observers>>

\* choice == 'M', lines 343-354: getline stores the line before it is checked
MenuManual(line) ==
    /\ pc = "menu"
    /\ user_prime_input' = line
    /\ IF line # <<>> /\ IsDigitString(line)
       THEN /\ predictions_made' = 0
            /\ in_menu' = FALSE
            /\ console' = "PRESS 'S' TO STOP"
            /\ UNCHANGED is_running
            /\ EnterLoop
       ELSE /\ console' = "Invalid input"
            /\ UNCHANGED <<predictions_made, in_menu, is_running, pc, LoopObservers>>
    /\ UNCHANGED <<current_prime_set_enum, metrics, file, Observers>>

\* choice in '1'..'4', lines 355-365
MenuPreset(index) ==
    /\ pc = "menu"
    /\ index >= 0 /\ index < Len(PRIME_LIST)
    /\ user_prime_input' = PRIME_LIST[index + 1]
    /\ predictions_made' = 0
    /\ in_menu' = FALSE
    /\ console' = "PRESS 'S' TO STOP"
    /\ UNCHANGED is_running
    /\ EnterLoop
    /\ UNCHANGED <<current_prime_set_enum, metrics, file, Observers>>

\* any other choice, lines 366-368
MenuInvalidOption ==
    /\ pc = "menu"
    /\ console' = "Invalid option"
    /\ UNCHANGED <<pc, is_running, in_menu, user_prime_input, predictions_made,
                   current_prime_set_enum, metrics, file, Observers, LoopObservers>>

\* GetAsyncKeyState('S') & 0x8000, lines 525-529; main() then calls display_menu()
LoopStop ==
    /\ pc = "loop"
    /\ is_running
    /\ console' = "Stopping prediction"
    /\ in_menu' = TRUE
    /\ pc' = "menu"
    /\ UNCHANGED <<is_running, user_prime_input, predictions_made,
                   current_prime_set_enum, metrics, file, Observers, LoopObservers>>

\* one iteration of the while loop, lines 531-546; limit bounds the run
LoopIterate(opened, limit) ==
    /\ pc = "loop"
    /\ is_running
    /\ predictions_made < limit
    /\ \E r \in LGO_Predict_Deterministic(user_prime_input) :
         IF r.threw # "no"
         THEN /\ pc' = "aborted"
              /\ console' = "terminate called"
              /\ current_prime_set_enum' =
                    IF r.threw = "out_of_range" THEN r.set_enum
                    ELSE current_prime_set_enum
              /\ total_calls' = total_calls + 1
              /\ UNCHANGED <<is_running, in_menu, user_prime_input, predictions_made,
                             metrics, file, appends_failed, last_saved, loop_opens>>
         ELSE /\ predictions_made' = predictions_made + 1
              /\ metrics' = r.metrics
              /\ current_prime_set_enum' = r.set_enum
              /\ console' = "Next Candidate"
              /\ file' = save_new_prime(file, r.next, opened)
              /\ user_prime_input' = r.next
              /\ appends_failed' = appends_failed + (IF opened THEN 0 ELSE 1)
              /\ loop_opens' = Append(loop_opens, opened)
              /\ last_saved' = IF opened THEN r.next ELSE last_saved
              /\ total_calls' = total_calls + 1
              /\ UNCHANGED <<pc, is_running, in_menu>>
    /\ UNCHANGED <<prior_file, loop_entry_file, pn_str, ret>>

Next ==
    \/ MenuQuit
    \/ MenuLoad
    \/ \E line \in ManualInputs : MenuManual(line)
    \/ \E index \in 0..(Len(PRIME_LIST) - 1) : MenuPreset(index)
    \/ MenuInvalidOption
    \/ LoopStop
    \/ \E opened \in BOOLEAN : total_calls < MaxCalls /\ LoopIterate(opened, MaxCalls)

Spec == Init /\ [][Next]_vars

-----------------------------------------------------------------------------
(* The chain of predictions from the example primes *)

InitChain ==
    /\ InitGlobals
    /\ pc = "menu"
    /\ file = NoFile
    /\ prior_file = file
    /\ loop_entry_file = file
    /\ pn_str = <<>>
    /\ ret = NoCall

NextChain ==
    \/ \E index \in 0..(Len(PRIME_LIST) - 1) : MenuPreset(index)
    \/ LoopIterate(TRUE, ChainIters)

SpecChain == InitChain /\ [][NextChain]_vars

-----------------------------------------------------------------------------
(* Direct calls of the core functions *)

InitDirect ==
    /\ InitGlobals
    /\ pc = "call"
    /\ file = NoFile
    /\ prior_file = file
    /\ loop_entry_file = file
    /\ pn_str \in DirectInputs
    /\ ret = NoCall

DriverData == <<is_running, in_menu, user_prime_input, predictions_made,
               current_prime_set_enum, metrics, file, console, appends_failed,
               total_calls, last_saved, prior_file, LoopObservers>>

Call_add_strings(k) ==
    /\ pc = "call"
    /\ ret' = [op |-> "add_strings", k |-> k, val |-> add_strings(pn_str, k)]
    /\ pc' = "returned"
    /\ UNCHANGED <<DriverData, pn_str>>

Call_calculate_mod_12 ==
    /\ pc = "call"
    /\ ret' = [op |-> "calculate_mod_12", val |-> calculate_mod_12(pn_str)]
    /\ pc' = "returned"
    /\ UNCHANGED <<DriverData, pn_str>>

Call_calculate_mod_7 ==
    /\ pc = "call"
    /\ ret' = [op |-> "calculate_mod_7", val |-> calculate_mod_7(pn_str)]
    /\ pc' = "returned"
    /\ UNCHANGED <<DriverData, pn_str>>

Call_determine_prime_set ==
    /\ pc = "call"
    /\ ret' = [op |-> "determine_prime_set", val |-> determine_prime_set(pn_str)]
    /\ pc' = "returned"
    /\ UNCHANGED <<DriverData, pn_str>>

Call_LGO_CalculateNextPrime_BaseGap_Detailed ==
    /\ pc = "call"
    /\ ret' = [op |-> "LGO_CalculateNextPrime_BaseGap_Detailed",
               val |-> LGO_CalculateNextPrime_BaseGap_Detailed(pn_str)]
    /\ pc' = "returned"
    /\ UNCHANGED <<DriverData, pn_str>>

Call_LGO_Predict_Deterministic ==
    /\ pc = "call"
    /\ \E r \in LGO_Predict_Deterministic(pn_str) :
         /\ ret' = [op |-> "LGO_Predict_Deterministic", val |-> r]
         /\ metrics' = r.metrics
         /\ current_prime_set_enum' =
               IF r.threw = "invalid_argument" THEN current_prime_set_enum
               ELSE r.set_enum
    /\ pc' = "returned"
    /\ UNCHANGED <<is_running, in_menu, user_prime_input, predictions_made,
                   file, console, appends_failed, total_calls, last_saved,
                   prior_file, LoopObservers, pn_str>>

NextDirect ==
    \/ \E k \in Addends : Call_add_strings(k)
    \/ Call_calculate_mod_12
    \/ Call_calculate_mod_7
    \/ Call_determine_prime_set
    \/ Call_LGO_CalculateNextPrime_BaseGap_Detailed
    \/ Call_LGO_Predict_Deterministic

SpecDirect == InitDirect /\ [][NextDirect]_vars

-----------------------------------------------------------------------------
(* Direct calls of the file functions *)

SavedStrings == {<<4>>, <<1,3>>, <<0,7>>}

InitPersist ==
    /\ InitGlobals
    /\ pc = "call"
    /\ file \in InitialFiles
    /\ prior_file = file
    /\ loop_entry_file = file
    /\ pn_str = <<>>
    /\ ret = NoCall

Call_save_new_prime(s, opened) ==
    /\ pc = "call"
    /\ total_calls < MaxSaves
    /\ file' = save_new_prime(file, s, opened)
    /\ pn_str' = s
    /\ ret' = [op |-> "save_new_prime", opened |-> opened]
    /\ last_saved' = IF opened THEN s ELSE last_saved
    /\ appends_failed' = appends_failed + (IF opened THEN 0 ELSE 1)
    /\ total_calls' = total_calls + 1
    /\ UNCHANGED <<pc, is_running, in_menu, user_prime_input, predictions_made,
                   current_prime_set_enum, metrics, console, prior_file,
                   LoopObservers>>

Call_load_last_prime ==
    /\ pc = "call"
    /\ ret' = [op |-> "load_last_prime", val |-> load_last_prime(file)]
    /\ pc' = "returned"
    /\ UNCHANGED <<DriverData, pn_str>>

NextPersist ==
    \/ \E s \in SavedStrings, opened \in BOOLEAN : Call_save_new_prime(s, opened)
    \/ Call_load_last_prime

SpecPersist == InitPersist /\ [][NextPersist]_vars

-----------------------------------------------------------------------------
(* Properties of the direct calls (SpecDirect) *)

\* digit strings short enough for SmallValue: nine digits stay below 2^31
HasSmallValue(s) == Len(s) <= 9

\* C1: for a non-empty digit string s and a non-negative addend k,
\* add_strings(s, k) is a digit string, not shorter than s, whose integer value
\* is exactly value(s) + k; the carry runs over the whole length of s.
C1_AddStringsExact ==
    (ret.op = "add_strings" /\ HasSmallValue(pn_str))
        => /\ IsDigitString(ret.val)
           /\ Len(ret.val) >= Len(pn_str)
           /\ SmallValue(ret.val) = SmallValue(pn_str) + ret.k

\* C1 witness: all nines plus one gives a result one digit longer
C1_Witness ==
    /\ ret.op = "add_strings"
    /\ pn_str = <<9, 9, 9>>
    /\ ret.k = 1
    /\ ret.val = <<1, 0, 0, 0>>

\* C2: calculate_mod_12(s) is value(s) mod 12 and calculate_mod_7(s) is
\* value(s) mod 7 (leading zeros allowed), and they lie in 0..11 and 0..6.
C2_ModExact ==
    /\ ret.op = "calculate_mod_12"
          => /\ ret.val \in 0..11
             /\ HasSmallValue(pn_str) => ret.val = SmallValue(pn_str) % 12
    /\ ret.op = "calculate_mod_7"
          => /\ ret.val \in 0..6
             /\ HasSmallValue(pn_str) => ret.val = SmallValue(pn_str) % 7

\* C2 witness: "094" is 94 = 7 * 12 + 10
C2_Witness ==
    /\ ret.op = "calculate_mod_12"
    /\ pn_str = <<0, 9, 4>>
    /\ ret.val = 10

\* C3: the final_gap LGO_Predict_Deterministic returns, and stores in
\* metrics.final_gap, is even and at least 2, whatever the sum of the base gap,
\* the modular delta and the density correction is.
C3_FinalGapEven ==
    (ret.op = "LGO_Predict_Deterministic" /\ ret.val.threw = "no")
        => /\ ret.val.final_gap % 2 = 0
           /\ ret.val.final_gap >= 2
           /\ metrics.final_gap = ret.val.final_gap

\* C3 witness: "71" is 11 mod 12 and 1 mod 7, the sum is 4 - 5 + 0 = -1
C3_Witness ==
    /\ ret.op = "LGO_Predict_Deterministic"
    /\ pn_str = <<7, 1>>
    /\ metrics.base_gap_out + metrics.delta_out + metrics.density_correction_G = -1
    /\ ret.val.final_gap = 2

\* the class the claim gives to a remainder modulo 12
ClassOfRemainder(r) ==
    CASE r = 1 -> SET_A [] r = 5 -> SET_B [] r = 7 -> SET_C [] r = 11 -> SET_D
      [] OTHER -> SET_NONE

\* C4: determine_prime_set depends on value mod 12 alone (1 -> A, 5 -> B,
\* 7 -> C, 11 -> D, else NONE), but for the literal strings "2" -> A and "3" -> B;
\* so two strings with the same remainder, neither "2" nor "3", get the same class.
C4_ClassByRemainder ==
    (ret.op = "determine_prime_set" /\ HasSmallValue(pn_str))
        => ret.val = IF pn_str = <<2>> THEN SET_A
                     ELSE IF pn_str = <<3>> THEN SET_B
                     ELSE ClassOfRemainder(SmallValue(pn_str) % 12)

\* C4 witness: "03" has the value of "3" and is not the literal "3"
C4_Witness ==
    /\ ret.op = "determine_prime_set"
    /\ pn_str = <<0, 3>>
    /\ ret.val = SET_NONE

\* C10: for d digits the base-gap heuristic is the smallest even integer that
\* is at least round(d * d / 50) + 3, is never below 2, and is what
\* metrics.base_gap_out reports; for "9999999967" d is 10 and the heuristic is 6.
C10_BaseGap ==
    LET d == Len(pn_str)
        least == ((d * d + 25) \div 50) + 3
        Expected(g) == g % 2 = 0 /\ g >= least /\ g - 2 < least /\ g >= 2
    IN /\ ret.op = "LGO_CalculateNextPrime_BaseGap_Detailed" => Expected(ret.val)
       /\ (ret.op = "LGO_Predict_Deterministic" /\ ret.val.threw = "no")
             => /\ Expected(metrics.base_gap_out)
                /\ metrics.current_prime_digits = d
                /\ pn_str = PRIME_LIST[1] => metrics.base_gap_out = 6 /\ d = 10

\* C10 witness: the 10-digit example
C10_Witness ==
    /\ ret.op = "LGO_Predict_Deterministic"
    /\ pn_str = <<9,9,9,9,9,9,9,9,6,7>>
    /\ metrics.current_prime_digits = 10
    /\ metrics.base_gap_out = 6

\* C6: LGO_Predict_Deterministic is total over the non-empty digit strings:
\* no exception escapes it.
C6_PredictTotal ==
    (ret.op = "LGO_Predict_Deterministic" /\ IsDigitString(pn_str))
        => ret.val.threw = "no"

-----------------------------------------------------------------------------
(* Properties of the sequence file (SpecPersist) *)

HasNoLine(f) ==
    ~f.exists \/ (f.tail = <<>> /\ \A i \in 1..Len(f.lines) : f.lines[i] = <<>>)

\* C5 as claimed: starting from any prior file contents, after one or more
\* save_new_prime calls load_last_prime returns the most recently saved string;
\* with the file absent or without a non-empty line it returns the empty string.
C5_RoundTripAnyPrior ==
    ret.op = "load_last_prime"
        => /\ last_saved # <<>> => ret.val = last_saved
           /\ HasNoLine(file) => ret.val = <<>>

\* C5 as amended: the same, when the prior contents are absent, empty or end
\* with a newline; last_saved is the string of the last call that opened the file.
C5_RoundTrip ==
    ret.op = "load_last_prime"
        => /\ (last_saved # <<>> /\ prior_file.tail = <<>>) => ret.val = last_saved
           /\ HasNoLine(file) => ret.val = <<>>

\* C5 witness: three saves onto a file that ended with a newline, the last one
\* failing to open the file, then a load
C5_Witness ==
    /\ ret.op = "load_last_prime"
    /\ prior_file.lines = <<<<1, 1>>, <<>>>>
    /\ total_calls = MaxSaves
    /\ appends_failed = 1
    /\ pn_str # last_saved
    /\ Len(file.lines) = 4
    /\ ret.val = last_saved

-----------------------------------------------------------------------------
(* Properties of the chain from the example primes (SpecChain) *)

\* C7: from each of the four PRIME_LIST values, with every next value fed back,
\* no call raises within the first 1000 iterations and every value passed to
\* the predictor is a non-empty string of digits.
C7_ChainSafe ==
    /\ pc # "aborted"
    /\ pc = "loop" => IsDigitString(user_prime_input)

\* C7 witness: the 1000th iteration is done; the 19-digit start has become 20 digits
C7_Witness ==
    /\ pc = "loop"
    /\ predictions_made = 1000
    /\ Len(user_prime_input) = 20
    /\ Len(file.lines) = 1000

-----------------------------------------------------------------------------
(* Properties of the driver (Spec) *)

\* C8: when an append fails to open the file the loop does not crash and goes
\* on, and the operator is shown a warning.
C8_AppendFailureSurfaced ==
    [][appends_failed' = appends_failed + 1
          => pc' = "loop" /\ console' = "Could not save to sequence file"]_vars

\* C9: every value the driver hands to LGO_Predict_Deterministic is non-empty
\* and made of '0'-'9' only, on the preset, manual and load paths alike.
C9_StartValueIsDigits ==
    pc = "loop" => IsDigitString(user_prime_input)

\* the prediction loop has just been left: by the stop key, lines 525-529, or
\* by an exception of the predictor
LoopExited == (pc = "menu" /\ console = "Stopping prediction") \/ pc = "aborted"

\* the lines the sequence file has gained since prediction_loop was entered
AppendedValues == Len(file.lines) - Len(loop_entry_file.lines)

\* C11 as claimed: the stop condition is polled once per iteration, before the
\* prediction, and each prediction is followed by the increment of
\* predictions_made, the append of next and its assignment to the current
\* value; so whenever the loop exits the number of appended values equals
\* predictions_made and the current value is the last value appended.
C11_ExitCountsAnyAppend ==
    LoopExited
        => /\ AppendedValues = predictions_made
           /\ predictions_made >= 1 => user_prime_input = last_saved

\* C11 as amended: whenever the loop exits, save_new_prime has been called once
\* per prediction, the appended values are the calls that opened the file, and
\* the current value is the last value appended when the last call opened it.
C11_ExitCounts ==
    LoopExited
        => /\ Len(loop_opens) = predictions_made
           /\ AppendedValues
                 = Cardinality({i \in 1..Len(loop_opens) : loop_opens[i]})
           /\ (predictions_made >= 1 /\ loop_opens[Len(loop_opens)])
                 => user_prime_input = last_saved

\* C11 witness: the loop is stopped after two predictions, the first append
\* having failed to open the file and the second having appended the current value
C11_Witness ==
    /\ pc = "menu"
    /\ console = "Stopping prediction"
    /\ predictions_made = 2
    /\ loop_opens = <<FALSE, TRUE>>
    /\ AppendedValues = 1
    /\ user_prime_input = last_saved
    /\ file.lines[Len(file.lines)] = user_prime_input

\* the decimal string after h in counting order: its trailing nines become
\* zeros and the digit before them goes up by one
StringSucc(h) ==
    LET nines == {k \in 0..Len(h) : \A i \in (Len(h) - k + 1)..Len(h) : h[i] = 9}
        k == CHOOSE x \in nines : \A y \in nines : y <= x
    IN IF k = Len(h) THEN <<1>> \o RepeatChar(0, k)
       ELSE SubSeq(h, 1, Len(h) - k - 1) \o <<h[Len(h) - k] + 1>> \o RepeatChar(0, k)

\* next is the decimal string of value(cur) + gap and has no digit more than
\* it needs beyond those of cur: by the values when they are small, else by
\* the value of the eight low digits and the string of the digits above them
IsSumOf(next, cur, gap) ==
    IF Len(cur) < 8
    THEN /\ Len(next) <= 9
         /\ gap < Pow10(8)
         /\ SmallValue(next) = SmallValue(cur) + gap
    ELSE /\ Len(next) >= 8
         /\ gap >= 0 /\ gap < Pow10(8)
         /\ LET low == SmallValue(SubSeq(cur, Len(cur) - 7, Len(cur))) + gap
                high == SubSeq(cur, 1, Len(cur) - 8)
            IN /\ SmallValue(SubSeq(next, Len(next) - 7, Len(next))) = low % Pow10(8)
               /\ SubSeq(next, 1, Len(next) - 8)
                     = IF low < Pow10(8) THEN high ELSE StringSucc(high)

\* value(a) < value(b), for strings without a sign
Less(a, b) ==
    IF HasSmallValue(a) /\ HasSmallValue(b) THEN SmallValue(a) < SmallValue(b)
    ELSE \/ Len(a) < Len(b)
         \/ /\ Len(a) = Len(b)
            /\ \E i \in 1..Len(a) : a[i] < b[i] /\ \A j \in 1..(i - 1) : a[j] = b[j]

\* the value of s modulo 2
Parity(s) == s[Len(s)] % 2

\* C12: in every iteration of the prediction loop the value appended to the
\* sequence file is the current value plus the final_gap of that iteration, an
\* even amount of at least 2: the appended values of a run increase strictly,
\* every later value keeps the parity of the start value, and the number of
\* digits of the current value never goes down.
C12_AppendedIsSum ==
    [][predictions_made' = predictions_made + 1
          => /\ metrics'.final_gap % 2 = 0
             /\ metrics'.final_gap >= 2
             /\ IsSumOf(user_prime_input', user_prime_input, metrics'.final_gap)
             /\ Less(user_prime_input, user_prime_input')
             /\ Parity(user_prime_input') = Parity(user_prime_input)
             /\ Len(user_prime_input') >= Len(user_prime_input)
             /\ file' # file
                   => /\ last_saved' = user_prime_input'
                      /\ file'.lines[Len(file'.lines)] = file.tail \o user_prime_input'
             /\ (file' # file /\ AppendedValues >= 1)
                   => /\ Less(last_saved, last_saved')
                      /\ Parity(last_saved') = Parity(last_saved)]_vars

\* C12 witness: two iterations from the 19-digit example, both appended; the
\* first sum carries into a 20th digit
C12_Witness ==
    /\ pc = "loop"
    /\ predictions_made = 2
    /\ loop_opens = <<TRUE, TRUE>>
    /\ AppendedValues = 2
    /\ file.lines[Len(file.lines) - 1] = <<1>> \o RepeatChar(0, 18) \o <<7>>
    /\ file.lines[Len(file.lines)] = <<1>> \o RepeatChar(0, 17) \o <<1, 5>>
    /\ user_prime_input = file.lines[Len(file.lines)]
    /\ metrics.final_gap = 8

====
